---- MODULE Spec2Model ----
(***************************************************************************)
(* Double-word arithmetic of libtwofloat                                   *)
(* (include/libtwofloat/arithmetics/double-word-arithmetic.hpp).           *)
(*                                                                         *)
(* The native type T is a binary floating-point format with PrecBits       *)
(* significand bits, round-to-nearest-even, and a smallest spacing of      *)
(* 1/Unit; a finite T value v is held as the integer v*Unit.  nan is the   *)
(* quiet NaN.  A double-word two<T> is the record [h |-> high, l |-> low]. *)
(*                                                                         *)
(* SpecArith is the build and call of add, sub, mul and div; SpecNint the  *)
(* two nint functions; SpecSqrt the square root; SpecTaylor the series     *)
(* loop of sin_taylor and cos_taylor; SpecSin the range reduction and      *)
(* dispatch of sin.  Spec is all of them.                                  *)
(***************************************************************************)
EXTENDS Integers, Sequences, FiniteSets, TLC

\* ------------------------------------------------------------------ bounds
PrecBits == 3
FracBits == 7
MaxH == 32
MaxInt == 4
MaxTurns == 2
MaxCast == 5

Unit == 2 ^ FracBits
pointfive == Unit \div 2
onepointzero == Unit
twopointzero == 2 * Unit
zeropointzero == 0

\* ------------------------------------------------ the native type T
nan == -1000000

Abs(a) == IF a < 0 THEN -a ELSE a

RECURSIVE Grid(_, _, _, _)
\* the spacing of T at magnitude n/den: the least power of two g with
\* n/den < g * 2^p
Grid(n, den, p, g) ==
  IF n < den * g * (2 ^ p) THEN g ELSE Grid(n, den, p, 2 * g)

\* n/d rounded to an integer, ties to even
RoundHalfEven(n, d) ==
  LET q == n \div d
      r == n % d
  IN IF 2 * r > d \/ (2 * r = d /\ q % 2 = 1) THEN q + 1 ELSE q

\* num/den (den > 0) rounded to the nearest value with p significand bits
RoundTo(num, den, p) ==
  LET n == Abs(num)
      g == Grid(n, den, p, 1)
      m == RoundHalfEven(n, den * g) * g
  IN IF num < 0 THEN -m ELSE m

RN(num, den) == RoundTo(num, den, PrecBits)

IsT(v) == RN(v, 1) = v

fadd(a, b) == RN(a + b, 1)
fsub(a, b) == RN(a - b, 1)
fmul(a, b) == RN(a * b, Unit)
fdiv(a, b) == IF b < 0 THEN RN(-(a * Unit), -b) ELSE RN(a * Unit, b)
RECURSIVE isqrt(_, _, _)
\* the largest integer whose square is at most n, sought in lo .. hi
isqrt(n, lo, hi) ==
  IF lo = hi THEN lo
  ELSE LET mid == (lo + hi + 1) \div 2
       IN IF mid * mid <= n THEN isqrt(n, mid, hi) ELSE isqrt(n, lo, mid - 1)

\* std::sqrt(a), 0 <= a * Unit < 2^30: the square root rounded to nearest,
\* ties to even
fsqrt(a) ==
  LET n == a * Unit
      f == isqrt(n, 0, 2 ^ 15 - 1)
      g == Grid(f, 1, PrecBits, 1)
      c == g * (f \div g)
      m == 2 * c + g
  IN IF 4 * n > m * m \/ (4 * n = m * m /\ (c \div g) % 2 = 1)
     THEN c + g
     ELSE c

fneg(a) == IF a = nan THEN nan ELSE -a
floor(a) == IF a = nan THEN nan ELSE Unit * (a \div Unit)

\* ------------------------------------------------ algorithms.hpp, twofloat.hpp
two(hi, lo) == [h |-> hi, l |-> lo]

eval(x) == IF x.h = nan \/ x.l = nan THEN nan ELSE fadd(x.h, x.l)

fma(a, b, c) == RN(a * b + c * Unit, Unit)

TwoSum(a, b) ==
  LET s == fadd(a, b)
      aa == fsub(s, b)
      bb == fsub(s, aa)
      da == fsub(a, aa)
      db == fsub(b, bb)
  IN two(s, fadd(da, db))

TwoDiff(a, b) == TwoSum(a, -b)

FastTwoSum(a, b) ==
  LET s == fadd(a, b)
      z == fsub(s, a)
  IN two(s, fsub(b, z))

Fast2Prod(a, b) ==
  LET p == fmul(a, b)
  IN two(p, fma(a, b, -p))

TwoProd(a, b) == Fast2Prod(a, b)

Split(x) ==
  LET hi == RoundTo(x, 1, PrecBits - (PrecBits \div 2))
  IN two(hi, fsub(x, hi))

\* ------------------------------------------------ double-word arithmetic
Mode == {"Fast", "Accurate", "Sloppy"}

\* DWPlusFP
add_fp(x, y) ==
  LET s == TwoSum(x.h, y)
      v == fadd(x.l, s.l)
  IN FastTwoSum(s.h, v)

sub_fp(x, y) ==
  LET s == TwoDiff(x.h, y)
      v == fadd(x.l, s.l)
  IN FastTwoSum(s.h, v)

\* SloppyDWPlusDW
add_Sloppy(x, y) ==
  LET s == TwoSum(x.h, y.h)
      v == fadd(x.l, y.l)
      w == fadd(s.l, v)
  IN FastTwoSum(s.h, w)

\* add_Accurate with the high parts summed by FastTwoSum, which is only
\* error-free when |x.h| >= |y.h|
add_Accurate_FastHigh(x, y) ==
  LET s == FastTwoSum(x.h, y.h)
      t == TwoSum(x.l, y.l)
      c == fadd(s.l, t.h)
      v == FastTwoSum(s.h, c)
      w == fadd(t.l, v.l)
  IN FastTwoSum(v.h, w)

\* AccurateDWPlusDW
add_Accurate(x, y) ==
  LET s == TwoSum(x.h, y.h)
      t == TwoSum(x.l, y.l)
      c == fadd(s.l, t.h)
      v == FastTwoSum(s.h, c)
      w == fadd(t.l, v.l)
  IN FastTwoSum(v.h, w)

add(mode, x, y) ==
  IF mode = "Sloppy" THEN add_Sloppy(x, y) ELSE add_Accurate(x, y)

sub_Sloppy(x, y) ==
  LET s == TwoDiff(x.h, y.h)
      v == fsub(x.l, y.l)
      w == fadd(s.l, v)
  IN FastTwoSum(s.h, w)

sub_Accurate(x, y) ==
  LET s == TwoDiff(x.h, y.h)
      t == TwoDiff(x.l, y.l)
      c == fadd(s.l, t.h)
      v == FastTwoSum(s.h, c)
      w == fadd(t.l, v.l)
  IN FastTwoSum(v.h, w)

sub(mode, x, y) ==
  IF mode = "Sloppy" THEN sub_Sloppy(x, y) ELSE sub_Accurate(x, y)

\* DWTimesFP3
mul_fp_FMA(x, y) ==
  LET c == Fast2Prod(x.h, y)
      cl3 == fma(x.l, y, c.l)
  IN FastTwoSum(c.h, cl3)

\* DWTimesFP2
mul_fp_Fast(x, y) ==
  LET c == TwoProd(x.h, y)
      cl2 == fmul(x.l, y)
      cl3 == fadd(c.l, cl2)
  IN FastTwoSum(c.h, cl3)

\* DWTimesFP1
mul_fp_Accurate(x, y) ==
  LET c == TwoProd(x.h, y)
      cl2 == fmul(x.l, y)
      t == FastTwoSum(c.h, cl2)
      tl2 == fadd(t.l, c.l)
  IN FastTwoSum(t.h, tl2)

\* mul(two, T): the useFMA block returns before the mode chain is run
mul_fp(p, useFMA, x, y) ==
  IF useFMA THEN mul_fp_FMA(x, y)
  ELSE IF p = "Fast" THEN mul_fp_Fast(x, y)
  ELSE mul_fp_Accurate(x, y)

\* DWTimesDW2
mul_FMA_Fast(x, y) ==
  LET c == Fast2Prod(x.h, y.h)
      tl == fmul(x.h, y.l)
      cl2 == fma(x.l, y.h, tl)
      cl3 == fadd(c.l, cl2)
  IN FastTwoSum(c.h, cl3)

\* DWTimesDW3
mul_FMA_Accurate(x, y) ==
  LET c == Fast2Prod(x.h, y.h)
      tl0 == fmul(x.l, y.l)
      tl1 == fma(x.h, y.l, tl0)
      cl2 == fma(x.l, y.h, tl1)
      cl3 == fadd(c.l, cl2)
  IN FastTwoSum(c.h, cl3)

\* mul_Fast with the cross term x.l * y.h left out
mul_Fast_OneCross(x, y) ==
  LET c == TwoProd(x.h, y.h)
      tl1 == fmul(x.h, y.l)
      cl3 == fadd(c.l, tl1)
  IN FastTwoSum(c.h, cl3)

\* DWTimesDW1
mul_Fast(x, y) ==
  LET c == TwoProd(x.h, y.h)
      tl1 == fmul(x.h, y.l)
      tl2 == fmul(x.l, y.h)
      cl2 == fadd(tl1, tl2)
      cl3 == fadd(c.l, cl2)
  IN FastTwoSum(c.h, cl3)

mul(p, useFMA, x, y) ==
  IF useFMA
  THEN IF p = "Fast" THEN mul_FMA_Fast(x, y) ELSE mul_FMA_Accurate(x, y)
  ELSE mul_Fast(x, y)

\* DWDivFP3
div_fp(useFMA, x, y) ==
  LET th == fdiv(x.h, y)
      pi == TwoProd(th, y)
      deltah == fsub(x.h, pi.h)
      deltat == fsub(deltah, pi.l)
      delta == fadd(deltat, x.l)
      tl == fdiv(delta, y)
  IN FastTwoSum(th, tl)

\* DWDivDW2
div_Fast(useFMA, x, y) ==
  LET th == fdiv(x.h, y.h)
      r == mul_fp("Accurate", useFMA, y, th)
      pih == fsub(x.h, r.h)
      deltal == fsub(x.l, r.l)
      delta == fadd(pih, deltal)
      tl == fdiv(delta, y.h)
  IN FastTwoSum(th, tl)

\* DWDivDW3
div_Accurate(x, y) ==
  LET th == fdiv(onepointzero, y.h)
      rh == fsub(onepointzero, fmul(y.h, th))
      rl == -fmul(y.l, th)
      e == FastTwoSum(rh, rl)
      delta == mul_fp("Accurate", TRUE, e, th)
      m == add_fp(delta, th)
  IN mul("Fast", TRUE, x, m)

div(mode, useFMA, x, y) ==
  IF mode = "Fast" THEN div_Fast(useFMA, x, y) ELSE div_Accurate(x, y)

\* ------------------------------------------------ constant tables
n_inv_fact == 15

\* ------------------------------------------------ namespace qd, dd_real
\* `if(input = std::floor(input))` assigns floor(input) to input and tests the
\* assigned value: a nonzero floor (NaN included) is returned as it is, and a
\* zero floor goes on to floor(0 + 0.5)
qd_nint(input) ==
  LET assigned == floor(input)
  IN IF assigned # zeropointzero
     THEN assigned
     ELSE floor(fadd(assigned, pointfive))

qd_two_sqr(input) ==
  LET q == fmul(input, input)
      temp == Split(input)
      hi == temp.h
      lo == temp.l
      err == fadd(fadd(fsub(fmul(hi, hi), q),
                       fmul(fmul(twopointzero, hi), lo)),
                  fmul(lo, lo))
  IN two(q, err)

qd_two_sum(a, b) ==
  LET s == fadd(a, b)
      bb == fsub(s, a)
      err == fsub(fsub(a, fsub(s, bb)), fsub(b, bb))
  IN two(s, err)

dd_real_sqr(input) == qd_two_sqr(input)

dd_real_add(a, b) == qd_two_sum(a, b)

\* ------------------------------------------------ nint, sqr
\* a NaN high word compares unequal to itself, so it takes the second branch,
\* whose tie test is false for it
nint(input) ==
  LET hi == qd_nint(input.h)
  IN IF hi # nan /\ hi = input.h
     THEN FastTwoSum(hi, qd_nint(input.l))
     ELSE IF /\ hi # nan
             /\ Abs(fsub(hi, input.h)) = pointfive
             /\ input.l < zeropointzero
          THEN two(fsub(hi, onepointzero), zeropointzero)
          ELSE two(hi, zeropointzero)

sqr(input) ==
  LET p == qd_two_sqr(input.h)
      p2a == fadd(p.l, fmul(fmul(twopointzero, input.h), input.l))
      p2b == fadd(p2a, fmul(input.l, input.l))
  IN FastTwoSum(p.h, p2b)

mul_pwr2(input, b) == two(fmul(input.h, b), fmul(input.l, b))

\* ------------------------------------------------ sqrt
\* Karp's trick, for input.h > 0
sqrt_karp(input) ==
  LET xx == fdiv(onepointzero, fsqrt(input.h))
      ax == fmul(input.h, xx)
      temp == sub("Accurate", input, dd_real_sqr(ax))
  IN dd_real_add(ax, fmul(fmul(temp.h, xx), pointfive))

sqrt(input) ==
  IF eval(input) = zeropointzero THEN two(zeropointzero, zeropointzero)
  ELSE IF input.h < zeropointzero THEN two(nan, nan)
  ELSE sqrt_karp(input)

\* ------------------------------------------------ template instantiation
\* The static_assert messages an instantiation of each template evaluates:
\* the branch `if constexpr` selects is instantiated, the others are discarded.
inst_add(mode) ==
  IF mode = "Sloppy" THEN {}
  ELSE IF mode = "Accurate" THEN {}
  ELSE {"Sloppy and accurate modes are supported"}

inst_sub(mode) ==
  IF mode = "Sloppy" THEN {}
  ELSE IF mode = "Accurate" THEN {}
  ELSE {"Sloppy and accurate modes are supported"}

\* the mode chain is a statement of its own after the useFMA block, so it is
\* instantiated whether or not useFMA is set
inst_mul_fp(p, useFMA) ==
  (IF useFMA THEN {} ELSE {})
  \cup (IF p = "Fast" THEN {}
        ELSE IF p = "Accurate" THEN {}
        ELSE {"Fast, accurate and FMA modes are supported"})

\* inst_mul without the static_assert of the branch that does not use FMA
inst_mul_NoAssert(p, useFMA) ==
  IF useFMA
  THEN IF p = "Fast" THEN {}
       ELSE IF p = "Accurate" THEN {}
       ELSE {"Fast and accurate modes are supported when using FMA"}
  ELSE {}

inst_mul(p, useFMA) ==
  IF useFMA
  THEN IF p = "Fast" THEN {}
       ELSE IF p = "Accurate" THEN {}
       ELSE {"Fast and accurate modes are supported when using FMA"}
  ELSE IF p = "Fast" THEN {}
       ELSE {"Only fast mode is supported without FMA"}

inst_div(mode, useFMA) ==
  (IF mode = "Fast" \/ useFMA THEN {}
   ELSE {"Only fast mode is supported without FMA"})
  \cup (IF mode = "Fast" THEN {}
        ELSE IF mode = "Accurate"
             THEN (IF useFMA THEN {} ELSE {"Accurate mode requires FMA"})
             ELSE {"Unsupported mode"})

Inst(f, m, u) == [fn |-> f, mode |-> m, useFMA |-> u]

\* the templates the selected branch of an instantiation calls
callees(tpl) ==
  IF tpl.fn = "div" /\ tpl.mode = "Fast"
  THEN {Inst("mul_fp", "Accurate", tpl.useFMA)}
  ELSE IF tpl.fn = "div" /\ tpl.mode = "Accurate"
  THEN {Inst("mul_fp", "Accurate", TRUE), Inst("add_fp", "none", FALSE),
        Inst("mul", "Fast", TRUE)}
  ELSE {}

static_assert(tpl) ==
  CASE tpl.fn = "add" -> inst_add(tpl.mode)
    [] tpl.fn = "sub" -> inst_sub(tpl.mode)
    [] tpl.fn = "mul_fp" -> inst_mul_fp(tpl.mode, tpl.useFMA)
    [] tpl.fn = "mul" -> inst_mul(tpl.mode, tpl.useFMA)
    [] tpl.fn = "div" -> inst_div(tpl.mode, tpl.useFMA)
    [] OTHER -> {}

RECURSIVE diagnostics(_)
\* every static_assert that fails when tpl and all it calls are instantiated
diagnostics(tpl) ==
  static_assert(tpl) \cup UNION {diagnostics(c) : c \in callees(tpl)}

\* what a translation unit can name: add/sub<mode>, mul<p, useFMA>(two, T),
\* mul<p, useFMA>(two, two), div<useFMA>(two, T), div<mode, useFMA>(two, two),
\* add(two, T)
Templates ==
  {Inst(f, m, FALSE) : f \in {"add", "sub"}, m \in Mode}
  \cup {Inst(f, m, u) : f \in {"mul_fp", "mul", "div"}, m \in Mode, u \in BOOLEAN}
  \cup {Inst("div_fp", "none", u) : u \in BOOLEAN}
  \cup {Inst("add_fp", "none", FALSE)}

\* the run-time call of an instantiation that compiled; y.h is the native
\* operand of the (two, T) overloads
apply(tpl, x, y) ==
  CASE tpl.fn = "add" -> add(tpl.mode, x, y)
    [] tpl.fn = "sub" -> sub(tpl.mode, x, y)
    [] tpl.fn = "mul_fp" -> mul_fp(tpl.mode, tpl.useFMA, x, y.h)
    [] tpl.fn = "mul" -> mul(tpl.mode, tpl.useFMA, x, y)
    [] tpl.fn = "div" -> div(tpl.mode, tpl.useFMA, x, y)
    [] tpl.fn = "div_fp" -> div_fp(tpl.useFMA, x, y.h)
    [] tpl.fn = "add_fp" -> add_fp(x, y.h)

\* ------------------------------------------------ sin
\* Angles are measured in turns: the T value v, held as v * Unit, is the angle
\* 2 pi v.  That makes _2pi, _pi2 and _pi16 exact and lets the reduction be
\* taken in exact arithmetic, each double-word operation of it giving its exact
\* result in the high word.
local_2pi == two(onepointzero, zeropointzero)

local_pi2 == two(onepointzero \div 4, zeropointzero)

local_pi16 == two(onepointzero \div 32, zeropointzero)

\* the value high + low of a double-word
value(d) == IF d.h = nan \/ d.l = nan THEN nan ELSE d.h + d.l

\* the double-word of an exact value
exact(v) == IF v = nan THEN two(nan, nan) ELSE two(v, zeropointzero)

\* a / b, b a divisor of onepointzero
xdiv(a, b) == IF a = nan \/ b = nan THEN nan ELSE (a * Unit) \div b

\* a * b, b an integer
xmul(a, b) == IF a = nan \/ b = nan THEN nan ELSE (a * b) \div Unit

xadd(a, b) == IF a = nan \/ b = nan THEN nan ELSE a + b

xsub(a, b) == IF a = nan \/ b = nan THEN nan ELSE a - b

\* z = nint(div(input, local_2pi))
sin_z(input) == nint(exact(xdiv(value(input), value(local_2pi))))

\* r = sub(input, mul(local_2pi, z))
sin_r(input, zz) ==
  exact(xsub(value(input), xmul(value(local_2pi), value(zz))))

\* q without the half added before the floor
sin_q_Floor(a, c) == floor(xdiv(a.h, c.h))

\* q = std::floor(a.h / c.h + pointfive)
sin_q(a, c) == floor(xadd(xdiv(a.h, c.h), pointfive))

\* sub(a, mul(c, q))
sin_t(a, c, q) == exact(xsub(value(a), xmul(value(c), q)))

\* static_cast<int>(q): the integer q holds; the conversion of a NaN is
\* undefined and can give any int, one in or out of the ranges sin tests
static_cast_int(q) == IF q = nan THEN -MaxCast .. MaxCast ELSE {q \div Unit}

\* The double-word sin returns is not evaluated: it is held as a linear form in
\* S = sin(t) and C = cos(t), the values of the kernels, and their products
\* with the table entries u = cos(|k| pi/16) and v = sin(|k| pi/16).
Monomials == {"S", "C", "uS", "vC", "uC", "vS"}

Zero == [m \in Monomials |-> 0]

Mono(n) == [m \in Monomials |-> IF m = n THEN 1 ELSE 0]

\* two<T>{-a.h, -a.l}
neg(a) == [m \in Monomials |-> 0 - a[m]]

\* add<Accurate>(a, b)
plus(a, b) == [m \in Monomials |-> a[m] + b[m]]

\* sub<Accurate>(a, b)
minus(a, b) == [m \in Monomials |-> a[m] - b[m]]

\* mul<Accurate, true>(a, b), a one of u, v and b one of sin_t, cos_t
times(a, b) ==
  CASE a = "u" /\ b = "S" -> Mono("uS")
    [] a = "u" /\ b = "C" -> Mono("uC")
    [] a = "v" /\ b = "S" -> Mono("vS")
    [] a = "v" /\ b = "C" -> Mono("vC")

\* the k == 0 switch on j
sin_switch(jj) ==
  CASE jj = 0 -> Mono("S")
    [] jj = 1 -> Mono("C")
    [] jj = -1 -> neg(Mono("C"))
    [] OTHER -> neg(Mono("S"))

\* the kernels the switch calls, in order
sin_switch_calls(jj) ==
  CASE jj = 0 -> <<"sin_taylor">>
    [] jj = 1 -> <<"cos_taylor">>
    [] jj = -1 -> <<"cos_taylor", "cos_taylor">>
    [] OTHER -> <<"sin_taylor", "sin_taylor">>

\* the source line of the return statement the switch takes
sin_switch_line(jj) ==
  CASE jj = 0 -> 686
    [] jj = 1 -> 688
    [] jj = -1 -> 690
    [] OTHER -> 692

\* the chain with the signs of j = 0 used for j = 1 as well
sin_combine_form_SameSign(jj, kk, old) ==
  IF jj = 0
  THEN IF kk > 0
       THEN plus(times("u", "S"), times("v", "C"))
       ELSE minus(times("u", "S"), times("v", "C"))
  ELSE IF jj = 1
  THEN IF kk > 0
       THEN plus(times("u", "C"), times("v", "S"))
       ELSE minus(times("u", "C"), times("v", "S"))
  ELSE IF jj = -1
  THEN IF kk > 0
       THEN minus(times("v", "S"), times("u", "C"))
       ELSE IF kk < 0
       THEN minus(neg(times("u", "C")), times("v", "S"))
       ELSE old
  ELSE IF kk > 0
       THEN minus(neg(times("u", "S")), times("v", "C"))
       ELSE minus(times("v", "C"), times("u", "S"))

\* the if/else chain on j and k that assigns r; old is r before it, which the
\* chain leaves alone for j = -1, k = 0
sin_combine_form(jj, kk, old) ==
  IF jj = 0
  THEN IF kk > 0
       THEN plus(times("u", "S"), times("v", "C"))
       ELSE minus(times("u", "S"), times("v", "C"))
  ELSE IF jj = 1
  THEN IF kk > 0
       THEN minus(times("u", "C"), times("v", "S"))
       ELSE plus(times("u", "C"), times("v", "S"))
  ELSE IF jj = -1
  THEN IF kk > 0
       THEN minus(times("v", "S"), times("u", "C"))
       ELSE IF kk < 0
       THEN minus(neg(times("u", "C")), times("v", "S"))
       ELSE old
  ELSE IF kk > 0
       THEN minus(neg(times("u", "S")), times("v", "C"))
       ELSE minus(times("v", "C"), times("u", "S"))

\* ------------------------------------------------ inputs
\* integer-valued T values up to MaxH: products of two of them are multiples
\* of 1/Unit, so no product of inputs underflows
Floats == {Unit * v : v \in {w \in -MaxH .. MaxH : IsT(w)}}

\* normalised double-words: high is the rounded sum
DoubleWords == {d \in [h : Floats, l : Floats] : fadd(d.h, d.l) = d.h}

\* ------------------------------------------------ state
VARIABLES pc, fn, mode, useFMA, x, y, res, diag, log, i, z, r, t, j, k, sym

\* the locals of sin: the reduction's z, r, t, j and k, and the form of the
\* double-word sin computes
sinVars == <<z, r, t, j, k, sym>>

vars == <<pc, fn, mode, useFMA, x, y, res, diag, log, i, sinVars>>

\* no call of sin has started
SinIdle ==
  /\ z = two(0, 0) /\ r = two(0, 0) /\ t = two(0, 0)
  /\ j = 0 /\ k = 0
  /\ sym = Zero

inst == Inst(fn, mode, useFMA)

\* ------------------------------------------------ arithmetic kernel
InitArith ==
  /\ pc = "source"
  /\ fn = "none" /\ mode = "none" /\ useFMA = FALSE
  /\ x = two(0, 0) /\ y = two(0, 0) /\ res = two(0, 0)
  /\ diag = {}
  /\ log = <<>>
  /\ i = 0
  /\ SinIdle

\* build time: the compiler instantiates one template
Instantiate ==
  /\ pc = "source"
  /\ \E tpl \in Templates :
       /\ fn' = tpl.fn /\ mode' = tpl.mode /\ useFMA' = tpl.useFMA
       /\ diag' = diagnostics(tpl)
       /\ pc' = IF diagnostics(tpl) = {} THEN "built" ELSE "build_error"
  /\ UNCHANGED <<x, y, res, log, i>>
  /\ UNCHANGED sinVars

\* run time: the instantiation is called
Call ==
  /\ pc = "built"
  /\ \E a \in DoubleWords, b \in DoubleWords :
       /\ fn \in {"mul_fp", "div_fp", "add_fp"} => b.l = 0
       /\ fn \in {"div", "div_fp"} => b.h # 0
       /\ x' = a /\ y' = b
       /\ res' = apply(inst, a, b)
  /\ pc' = "returned"
  /\ UNCHANGED <<fn, mode, useFMA, diag, log, i>>
  /\ UNCHANGED sinVars

NextArith == Instantiate \/ Call

SpecArith == InitArith /\ [][NextArith]_vars

\* ------------------------------------------------ nearest integer
\* T values up to MaxInt in magnitude, fractions included
Fractions == {v \in -(MaxInt * Unit) .. MaxInt * Unit : IsT(v)}

FractionWords == {d \in [h : Fractions, l : Fractions] : fadd(d.h, d.l) = d.h}

InitNint ==
  /\ pc = "entry"
  /\ fn = "none" /\ mode = "none" /\ useFMA = FALSE
  /\ x = two(0, 0) /\ y = two(0, 0) /\ res = two(0, 0)
  /\ diag = {}
  /\ log = <<>>
  /\ i = 0
  /\ SinIdle

\* qd::nint(T): the argument is x.h and the returned T is res.h
Call_qd_nint ==
  /\ pc = "entry"
  /\ \E a \in Fractions :
       /\ x' = two(a, zeropointzero)
       /\ res' = two(qd_nint(a), zeropointzero)
  /\ fn' = "qd_nint"
  /\ pc' = "returned"
  /\ UNCHANGED <<mode, useFMA, y, diag, log, i>>
  /\ UNCHANGED sinVars

Call_nint ==
  /\ pc = "entry"
  /\ \E a \in FractionWords :
       /\ x' = a
       /\ res' = nint(a)
  /\ fn' = "nint"
  /\ pc' = "returned"
  /\ UNCHANGED <<mode, useFMA, y, diag, log, i>>
  /\ UNCHANGED sinVars

NextNint == Call_qd_nint \/ Call_nint

SpecNint == InitNint /\ [][NextNint]_vars

\* ------------------------------------------------ square root
\* double-words that meet the precondition of FastTwoSum, |h| >= |l|; they
\* need not be normalised
RawWords == {d \in [h : Floats, l : Floats] : Abs(d.h) >= Abs(d.l)}

InitSqrt ==
  /\ pc = "entry"
  /\ fn = "none" /\ mode = "none" /\ useFMA = FALSE
  /\ x = two(0, 0) /\ y = two(0, 0) /\ res = two(0, 0)
  /\ diag = {}
  /\ log = <<>>
  /\ i = 0
  /\ SinIdle

Call_sqrt ==
  /\ pc = "entry"
  /\ \E a \in RawWords : x' = a
  /\ fn' = "sqrt"
  /\ pc' = "zero_test"
  /\ UNCHANGED <<mode, useFMA, y, res, diag, log, i>>
  /\ UNCHANGED sinVars

\* the zero test with the high word in place of the collapsed value
sqrt_zero_test_HighOnly ==
  /\ pc = "zero_test"
  /\ log' = Append(log, "zero_test")
  /\ IF x.h = zeropointzero
     THEN res' = two(zeropointzero, zeropointzero) /\ pc' = "returned"
     ELSE pc' = "negative_test" /\ UNCHANGED res
  /\ UNCHANGED <<fn, mode, useFMA, x, y, diag, i>>
  /\ UNCHANGED sinVars

\* if (input.eval() == zeropointzero)
sqrt_zero_test ==
  /\ pc = "zero_test"
  /\ log' = Append(log, "zero_test")
  /\ IF eval(x) = zeropointzero
     THEN res' = two(zeropointzero, zeropointzero) /\ pc' = "returned"
     ELSE pc' = "negative_test" /\ UNCHANGED res
  /\ UNCHANGED <<fn, mode, useFMA, x, y, diag, i>>
  /\ UNCHANGED sinVars

\* if (input.h < zeropointzero)
sqrt_negative_test ==
  /\ pc = "negative_test"
  /\ log' = Append(log, "negative_test")
  /\ IF x.h < zeropointzero
     THEN res' = two(nan, nan) /\ pc' = "returned"
     ELSE pc' = "karp" /\ UNCHANGED res
  /\ UNCHANGED <<fn, mode, useFMA, x, y, diag, i>>
  /\ UNCHANGED sinVars

sqrt_refine ==
  /\ pc = "karp"
  /\ log' = Append(log, "karp")
  /\ res' = sqrt_karp(x)
  /\ pc' = "returned"
  /\ UNCHANGED <<fn, mode, useFMA, x, y, diag, i>>
  /\ UNCHANGED sinVars

NextSqrt == Call_sqrt \/ sqrt_zero_test \/ sqrt_negative_test \/ sqrt_refine

SpecSqrt == InitSqrt /\ [][NextSqrt]_vars

\* ------------------------------------------------ Taylor kernels
\* The series is not evaluated in T: the term t of an iteration is held by its
\* class, which is all the loop condition reads.  "above" and "below" are
\* finite terms with |t| above the threshold or not.
TermClass == {"above", "below", "inf", "nan"}

\* std::abs(t.eval()) > thresh: a comparison with NaN is false
above_thresh(c) == c \in {"above", "inf"}

TaylorInputs ==
  {d \in RawWords : Abs(d.h) <= onepointzero} \cup {two(nan, nan)}

\* a NaN input gives NaN terms; any other input can give any term
terms_of(input) == IF input.h = nan THEN {"nan"} ELSE TermClass

\* inv_fact: row n holds the double-word of 1/(n + 3)!; the entry is held by
\* the argument of its factorial
inv_fact(row) == row + 3

\* (local_ptr_inv_fact + off)[0]: the table is flattened row by row, so the
\* offset off is word off % 2 of row off \div 2 (word 0 high, word 1 low)
flat(off) == [row |-> off \div 2, word |-> off % 2]

\* two<T>{(local_ptr_inv_fact + i)[0], (local_ptr_inv_fact + i)[1]}
coefficient(ii) == two(flat(ii), flat(ii + 1))

InitTaylor ==
  /\ pc = "entry"
  /\ fn = "none" /\ mode = "none" /\ useFMA = FALSE
  /\ x = two(0, 0) /\ y = two(0, 0) /\ res = two(0, 0)
  /\ diag = {}
  /\ log = <<>>
  /\ i = 0
  /\ SinIdle

\* sin_taylor up to `do`: the zero input returns (0, 0), any other starts the
\* series at i = 0
Call_sin_taylor ==
  /\ pc = "entry"
  /\ fn' = "sin_taylor"
  /\ \E a \in TaylorInputs :
       /\ x' = a
       /\ IF eval(a) = zeropointzero
          THEN /\ res' = two(zeropointzero, zeropointzero)
               /\ pc' = "returned" /\ i' = i
          ELSE res' = res /\ pc' = "loop" /\ i' = 0
  /\ UNCHANGED <<mode, useFMA, y, diag, log>>
  /\ UNCHANGED sinVars

\* cos_taylor up to `do`: the zero input returns (1, 0), any other starts the
\* series at i = 1
Call_cos_taylor ==
  /\ pc = "entry"
  /\ fn' = "cos_taylor"
  /\ \E a \in TaylorInputs :
       /\ x' = a
       /\ IF eval(a) = zeropointzero
          THEN /\ res' = two(onepointzero, zeropointzero)
               /\ pc' = "returned" /\ i' = i
          ELSE res' = res /\ pc' = "loop" /\ i' = 1
  /\ UNCHANGED <<mode, useFMA, y, diag, log>>
  /\ UNCHANGED sinVars

\* the loop with `i <= n_inv_fact` as its bound
taylor_body_OffByOne ==
  /\ pc = "loop"
  /\ \E c \in terms_of(x) :
       /\ log' = Append(log, [off |-> i, t |-> c])
       /\ pc' = IF i + 2 <= n_inv_fact /\ above_thresh(c)
                THEN "loop" ELSE "returned"
  /\ i' = i + 2
  /\ UNCHANGED <<fn, mode, useFMA, x, y, res, diag>>
  /\ UNCHANGED sinVars

\* one pass of do { ... i += 2; } while (i < n_inv_fact && |t| > thresh):
\* the coefficient is read at the flattened offsets i and i + 1
taylor_body ==
  /\ pc = "loop"
  /\ \E c \in terms_of(x) :
       /\ log' = Append(log, [off |-> i, t |-> c])
       /\ pc' = IF i + 2 < n_inv_fact /\ above_thresh(c)
                THEN "loop" ELSE "returned"
  /\ i' = i + 2
  /\ UNCHANGED <<fn, mode, useFMA, x, y, res, diag>>
  /\ UNCHANGED sinVars

NextTaylor == Call_sin_taylor \/ Call_cos_taylor \/ taylor_body

\* the kernels run to completion: a step that can be taken is taken
SpecTaylor == InitTaylor /\ [][NextTaylor]_vars /\ WF_vars(NextTaylor)

\* ------------------------------------------------ sin
\* arguments up to MaxTurns turns, every multiple of 2 pi / Unit, and NaN
SinInputs ==
  {exact(n) : n \in -(MaxTurns * Unit) .. MaxTurns * Unit} \cup {two(nan, nan)}

\* an entry of the log of sin
Event(e, a) == [ev |-> e, arg |-> a]

\* the return statement at a source line
Return(line) == Event("return", line)

RECURSIVE Calls(_, _)
\* the calls of the kernels named in names, each with the argument a
Calls(names, a) ==
  IF names = <<>> THEN <<>>
  ELSE <<Event(Head(names), a)>> \o Calls(Tail(names), a)

InitSin ==
  /\ pc = "entry"
  /\ fn = "none" /\ mode = "none" /\ useFMA = FALSE
  /\ x = two(0, 0) /\ y = two(0, 0) /\ res = two(0, 0)
  /\ diag = {}
  /\ log = <<>>
  /\ i = 0
  /\ SinIdle

Call_sin ==
  /\ pc = "entry"
  /\ \E a \in SinInputs : x' = a
  /\ fn' = "sin"
  /\ pc' = "sin_zero_test"
  /\ UNCHANGED <<mode, useFMA, y, res, diag, log, i>>
  /\ UNCHANGED sinVars

\* if (input.eval() == zeropointzero)
sin_zero_test ==
  /\ pc = "sin_zero_test"
  /\ IF eval(x) = zeropointzero
     THEN /\ res' = two(zeropointzero, zeropointzero)
          /\ log' = Append(log, Return(637))
          /\ pc' = "returned"
     ELSE pc' = "reduce_2pi" /\ UNCHANGED <<res, log>>
  /\ UNCHANGED <<fn, mode, useFMA, x, y, diag, i>>
  /\ UNCHANGED sinVars

\* reducing modulo 2 pi
sin_reduce_2pi ==
  /\ pc = "reduce_2pi"
  /\ z' = sin_z(x)
  /\ r' = sin_r(x, z')
  /\ pc' = "reduce_pi2"
  /\ UNCHANGED <<fn, mode, useFMA, x, y, res, diag, log, i, t, j, k, sym>>

\* reducing modulo pi/2
sin_reduce_pi2 ==
  /\ pc = "reduce_pi2"
  /\ LET q == sin_q(r, local_pi2)
     IN /\ t' = sin_t(r, local_pi2, q)
        /\ j' \in static_cast_int(q)
  /\ pc' = "reduce_pi16"
  /\ UNCHANGED <<fn, mode, useFMA, x, y, res, diag, log, i, z, r, k, sym>>

\* reducing modulo pi/16
sin_reduce_pi16 ==
  /\ pc = "reduce_pi16"
  /\ LET q == sin_q(t, local_pi16)
     IN /\ t' = sin_t(t, local_pi16, q)
        /\ k' \in static_cast_int(q)
  /\ pc' = "check_j"
  /\ UNCHANGED <<fn, mode, useFMA, x, y, res, diag, log, i, z, r, j, sym>>

\* the test of j with its upper bound left out
sin_check_j_LowerOnly ==
  /\ pc = "check_j"
  /\ IF j < -2
     THEN /\ res' = two(nan, nan)
          /\ log' = Append(log, Return(675))
          /\ pc' = "returned"
     ELSE pc' = "check_k" /\ UNCHANGED <<res, log>>
  /\ UNCHANGED <<fn, mode, useFMA, x, y, diag, i>>
  /\ UNCHANGED sinVars

\* if (j < -2 || j > 2)
sin_check_j ==
  /\ pc = "check_j"
  /\ IF j < -2 \/ j > 2
     THEN /\ res' = two(nan, nan)
          /\ log' = Append(log, Return(675))
          /\ pc' = "returned"
     ELSE pc' = "check_k" /\ UNCHANGED <<res, log>>
  /\ UNCHANGED <<fn, mode, useFMA, x, y, diag, i>>
  /\ UNCHANGED sinVars

\* if (abs_k > 4)
sin_check_k ==
  /\ pc = "check_k"
  /\ IF Abs(k) > 4
     THEN /\ res' = two(nan, nan)
          /\ log' = Append(log, Return(680))
          /\ pc' = "returned"
     ELSE pc' = "dispatch" /\ UNCHANGED <<res, log>>
  /\ UNCHANGED <<fn, mode, useFMA, x, y, diag, i>>
  /\ UNCHANGED sinVars

\* if (k == 0) { switch (j) ... }: each case returns what its kernel gives
sin_dispatch ==
  /\ pc = "dispatch"
  /\ IF k = 0
     THEN /\ sym' = sin_switch(j)
          /\ log' = log \o Calls(sin_switch_calls(j), value(t))
                        \o <<Return(sin_switch_line(j))>>
          /\ pc' = "returned"
     ELSE pc' = "lookup" /\ UNCHANGED <<sym, log>>
  /\ UNCHANGED <<fn, mode, useFMA, x, y, res, diag, i, z, r, t, j, k>>

\* the lookup with abs_k itself as the row
sin_lookup_RowAbsK ==
  /\ pc = "lookup"
  /\ LET off == 2 * Abs(k)
     IN log' = log \o <<Event("cos_table", off), Event("cos_table", off + 1),
                        Event("sin_table", off), Event("sin_table", off + 1)>>
  /\ pc' = "sincos"
  /\ UNCHANGED <<fn, mode, useFMA, x, y, res, diag, i>>
  /\ UNCHANGED sinVars

\* u and v: two entries of each table, at the flattened offsets
\* 2 * (abs_k - 1) and the one after it
sin_lookup ==
  /\ pc = "lookup"
  /\ LET off == 2 * (Abs(k) - 1)
     IN log' = log \o <<Event("cos_table", off), Event("cos_table", off + 1),
                        Event("sin_table", off), Event("sin_table", off + 1)>>
  /\ pc' = "sincos"
  /\ UNCHANGED <<fn, mode, useFMA, x, y, res, diag, i>>
  /\ UNCHANGED sinVars

\* sincos_taylor(t, sin_t, cos_t)
sin_sincos ==
  /\ pc = "sincos"
  /\ log' = Append(log, Event("sincos_taylor", value(t)))
  /\ pc' = "combine"
  /\ UNCHANGED <<fn, mode, useFMA, x, y, res, diag, i>>
  /\ UNCHANGED sinVars

\* the combination of u, v, sin_t and cos_t, and `return r`
sin_combine ==
  /\ pc = "combine"
  /\ sym' = sin_combine_form(j, k, sym)
  /\ log' = Append(log, Return(755))
  /\ pc' = "returned"
  /\ UNCHANGED <<fn, mode, useFMA, x, y, res, diag, i, z, r, t, j, k>>

NextSin ==
  \/ Call_sin \/ sin_zero_test
  \/ sin_reduce_2pi \/ sin_reduce_pi2 \/ sin_reduce_pi16
  \/ sin_check_j \/ sin_check_k
  \/ sin_dispatch \/ sin_lookup \/ sin_sincos \/ sin_combine

SpecSin == InitSin /\ [][NextSin]_vars

\* the functions that read the constant tables
InitTrig == InitTaylor \/ InitSin

NextTrig == NextTaylor \/ NextSin

SpecTrig == InitTrig /\ [][NextTrig]_vars

\* ------------------------------------------------ properties
\* C7: double-word multiplication is commutative bit for bit in every
\* supported (mode, FMA) combination: mul(x, y) and mul(y, x) return the same
\* (high, low) pair.
C7_MulCommutes ==
  (pc = "returned" /\ fn = "mul") => res = mul(mode, useFMA, y, x)

\* C7 (amended): without FMA (Fast mode, DWTimesDW1) mul(x, y) and mul(y, x)
\* return the same (high, low) pair.
C7_MulCommutesWithoutFMA ==
  (pc = "returned" /\ fn = "mul" /\ ~useFMA) => res = mul(mode, useFMA, y, x)

C7_Witness ==
  /\ pc = "returned" /\ fn = "mul" /\ ~useFMA
  /\ x # y /\ x.l # 0 /\ y.l # 0 /\ res.l # 0

\* C8: double-word addition is commutative bit for bit in the Sloppy and in
\* the Accurate mode: add(x, y) and add(y, x) return the same pair.
C8_AddCommutes ==
  (pc = "returned" /\ fn = "add") => res = add(mode, y, x)

C8_Witness ==
  /\ pc = "returned" /\ fn = "add" /\ mode = "Accurate"
  /\ x # y /\ x.l # 0 /\ y.l # 0 /\ res.l # 0
  /\ Abs(x.h) < Abs(y.h)

\* the combinations the static selector is said to admit
DocumentedCombinations ==
  {Inst(f, m, FALSE) : f \in {"add", "sub"}, m \in {"Sloppy", "Accurate"}}
  \cup {Inst("mul", "Fast", TRUE), Inst("mul", "Accurate", TRUE),
        Inst("mul", "Fast", FALSE)}
  \cup {Inst("div", "Fast", TRUE), Inst("div", "Fast", FALSE),
        Inst("div", "Accurate", TRUE)}

\* C9: the static selector admits exactly the supported combinations of
\* add/sub/mul/div on two double-words and rejects every other one at build
\* time: a rejected combination ends in a build error and is never called, an
\* admitted one builds, and everything an admitted combination calls builds.
C9_StaticSelector ==
  (fn \in {"add", "sub", "mul", "div"} /\ pc # "source") =>
    /\ inst \in DocumentedCombinations <=> pc \in {"built", "returned"}
    /\ inst \notin DocumentedCombinations <=> pc = "build_error"
    /\ pc = "build_error" <=> diag # {}
    /\ pc \in {"built", "returned"} =>
         \A c \in callees(inst) :
           /\ diagnostics(c) = {}
           /\ c.fn \in {"add", "sub", "mul", "div"} => c \in DocumentedCombinations

C9_Witness ==
  pc = "build_error" /\ fn = "mul" /\ mode = "Accurate" /\ ~useFMA

\* C10: with FMA selected, mul(double-word, native) is accepted for every
\* value of Mode (Fast, Accurate, Sloppy) and computes DWTimesFP3 whatever
\* the mode.
C10_ModeIgnoredWithFMA ==
  (fn = "mul_fp" /\ useFMA /\ pc # "source") =>
    /\ pc # "build_error"
    /\ pc = "returned" => res = mul_fp_FMA(x, y.h)

\* the integer nearest to v, halves rounded up: v when v is an integer,
\* floor(v + 1/2) otherwise, in exact arithmetic
Nearest(v) ==
  IF v % Unit = 0 THEN v ELSE Unit * ((v + pointfive) \div Unit)

\* C4: qd::nint(x) returns the integer nearest to x for every finite x: x
\* itself when x is an integer and floor(x + 1/2) otherwise.
C4_QdNintNearest ==
  (pc = "returned" /\ fn = "qd_nint") => res.h = Nearest(x.h)

\* C5: nint of a double-word (h, l) returns the integer nearest to h + l:
\* h + nint(l) when h is an integer, and otherwise nint(h), lowered by 1
\* exactly when h lies halfway between two integers and l < 0.
C5_NintNearest ==
  (pc = "returned" /\ fn = "nint") =>
    res.h + res.l =
      IF x.h % Unit = 0 THEN x.h + Nearest(x.l)
      ELSE IF x.h % Unit = pointfive /\ x.l < 0 THEN Nearest(x.h) - Unit
      ELSE Nearest(x.h)

\* C3: sqrt returns (0, 0) when the collapsed input high + low is zero,
\* (NaN, NaN) when the high part is negative, and only otherwise runs the
\* Karp refinement; the zero test comes first, and every call returns a
\* double-word.
C3_SqrtBranches ==
  (pc = "returned" /\ fn = "sqrt") =>
    /\ eval(x) = zeropointzero =>
         res = two(zeropointzero, zeropointzero) /\ log = <<"zero_test">>
    /\ (eval(x) # zeropointzero /\ x.h < zeropointzero) =>
         res = two(nan, nan) /\ log = <<"zero_test", "negative_test">>
    /\ (eval(x) # zeropointzero /\ x.h >= zeropointzero) =>
         /\ log = <<"zero_test", "negative_test", "karp">>
         /\ res.h # nan /\ res.l # nan

C3_Witness ==
  /\ pc = "returned" /\ fn = "sqrt"
  /\ x.h < zeropointzero /\ eval(x) = zeropointzero
  /\ res = two(zeropointzero, zeropointzero)

\* the loop has been entered and has run Len(log) times
InLoop == fn \in {"sin_taylor", "cos_taylor"} /\ eval(x) # zeropointzero

\* the pass that wrote log[n] ends the loop: its term is not above the
\* threshold, or the index it advanced to is no longer below the table size
Stops(n) == ~above_thresh(log[n].t) \/ log[n].off + 2 >= n_inv_fact

C6_Bounds ==
  InLoop =>
    /\ Len(log) <= 15
    /\ pc = "loop" => \A n \in 1 .. Len(log) : ~Stops(n)
    /\ pc = "returned" =>
         /\ Len(log) >= 1
         /\ Stops(Len(log))
         /\ \A n \in 1 .. Len(log) - 1 : ~Stops(n)

\* C6: the series loop of sin_taylor and cos_taylor terminates for every
\* input, NaN and infinite terms included: it runs its body at least once and
\* at most 15 times and stops at the first pass whose term is not above the
\* threshold or whose advanced index is no longer below 15.
C6_TaylorLoopTerminates == [](C6_Bounds) /\ <>(pc = "returned")

C6_Witness ==
  /\ pc = "returned" /\ fn = "cos_taylor"
  /\ Len(log) = 7 /\ log[7].t = "inf"

\* a call of sin that went past the zero test has returned
SinReduced == pc = "returned" /\ fn = "sin" /\ eval(x) # zeropointzero

\* the entries of the log of one kind
Entries(e) == {n \in 1 .. Len(log) : log[n].ev = e}

\* C1: for every finite nonzero input of sin the reduction gives j in
\* [-2, 2] and |k| <= 4, and sin does not return the (NaN, NaN) of a failed
\* reduction.
C1_ReductionInRange ==
  (SinReduced /\ x.h # nan) =>
    /\ j \in -2 .. 2
    /\ Abs(k) <= 4
    /\ res # two(nan, nan)

\* C2: sin returns (NaN, NaN) whenever j is outside [-2, 2] or |k| > 4, by a
\* return statement and before any table lookup or kernel call; in every other
\* case it returns through exactly one of the k == 0 switch and the table
\* combination.
C2_ReductionFailure ==
  SinReduced =>
    /\ Entries("return") = {Len(log)}
    /\ IF j < -2 \/ j > 2 \/ Abs(k) > 4
       THEN /\ res = two(nan, nan)
            /\ Len(log) = 1
            /\ log[1].arg \in {675, 680}
       ELSE /\ res # two(nan, nan)
            /\ k = 0 <=> log[Len(log)].arg \in {686, 688, 690, 692}
            /\ k # 0 <=> log[Len(log)].arg = 755
            /\ k = 0 => Entries("cos_table") \cup Entries("sin_table") = {}

C2_Witness ==
  /\ SinReduced /\ x.h # nan
  /\ j > 2
  /\ res = two(nan, nan)

\* C11: every coefficient the Taylor kernels read is the (high, low) pair of
\* one row of the reciprocal-factorial table, and the row of the term in hand:
\* 1/(2n + 1)! at the n-th pass of sin_taylor, 1/(2n + 2)! at the n-th pass of
\* cos_taylor.
C11_CoefficientOfTerm ==
  InLoop =>
    \A n \in 1 .. Len(log) :
      LET c == coefficient(log[n].off)
      IN /\ c.h.word = 0 /\ c.l.word = 1
         /\ c.h.row = c.l.row
         /\ inv_fact(c.h.row) =
              IF fn = "sin_taylor" THEN 2 * n + 1 ELSE 2 * n + 2

\* the reads of cos_table and sin_table a call of sin has made
TableReads == Entries("cos_table") \cup Entries("sin_table")

\* C14: every read of a constant table stays inside the table: in sin the
\* offsets into cos_table and sin_table lie in 0..7 and the lookup is reached
\* only with 1 <= |k| <= 4; in sin_taylor and cos_taylor the offsets i and
\* i + 1 into the reciprocal-factorial table lie in 0..29 at every pass.
C14_TableReadsInRange ==
  /\ (fn = "sin" /\ pc \in {"lookup", "sincos", "combine"}) =>
       Abs(k) \in 1 .. 4
  /\ fn = "sin" =>
       \A n \in TableReads :
         /\ log[n].arg \in 0 .. 7
         /\ log[n].arg \in {2 * (Abs(k) - 1), 2 * (Abs(k) - 1) + 1}
  /\ InLoop =>
       /\ \A n \in 1 .. Len(log) :
            log[n].off \in 0 .. 29 /\ log[n].off + 1 \in 0 .. 29
       /\ pc = "loop" => i \in 0 .. 29 /\ i + 1 \in 0 .. 29

C14_Witness ==
  /\ fn = "sin" /\ pc = "returned" /\ x.h # nan
  /\ Abs(k) = 4
  /\ \E n \in TableReads : log[n].arg = 7

\* the calls of sin_taylor, cos_taylor and sincos_taylor sin has made
KernelCalls ==
  Entries("sin_taylor") \cup Entries("cos_taylor")
    \cup Entries("sincos_taylor")

\* pi/32, in turns
pi32 == onepointzero \div 64

\* C13: whenever sin calls sin_taylor, cos_taylor or sincos_taylor on a finite
\* input, the argument t it passes has |t| <= pi/32 and
\* input = 2 pi z + j pi/2 + k pi/16 + t in exact arithmetic.
C13_ReducedArgument ==
  (fn = "sin" /\ x.h # nan) =>
    \A n \in KernelCalls :
      /\ log[n].arg = value(t)
      /\ Abs(log[n].arg) <= pi32
      /\ value(x) =
           xmul(value(local_2pi), value(z)) + j * value(local_pi2)
             + k * value(local_pi16) + log[n].arg

C13_Witness ==
  /\ fn = "sin" /\ pc = "returned" /\ x.h # nan
  /\ j = 2 /\ k = -3 /\ value(z) = -onepointzero
  /\ \E n \in Entries("sincos_taylor") : log[n].arg = -pi32

\* the form with the given coefficients of S, C, uS, vC, uC and vS
Form(cS, cC, cuS, cvC, cuC, cvS) ==
  [m \in Monomials |->
     CASE m = "S" -> cS [] m = "C" -> cC
       [] m = "uS" -> cuS [] m = "vC" -> cvC
       [] m = "uC" -> cuC [] m = "vS" -> cvS]

\* sin(jj pi/2 + kk pi/16 + t) expanded by the angle-addition formulas
Expansion(jj, kk) ==
  LET sg == IF kk > 0 THEN 1 ELSE -1
  IN IF kk = 0
     THEN CASE jj = 0 -> Form(1, 0, 0, 0, 0, 0)
            [] jj = 1 -> Form(0, 1, 0, 0, 0, 0)
            [] jj = -1 -> Form(0, -1, 0, 0, 0, 0)
            [] OTHER -> Form(-1, 0, 0, 0, 0, 0)
     ELSE CASE jj = 0 -> Form(0, 0, 1, sg, 0, 0)
            [] jj = 1 -> Form(0, 0, 0, 0, 1, -sg)
            [] jj = -1 -> Form(0, 0, 0, 0, -1, sg)
            [] OTHER -> Form(0, 0, -1, -sg, 0, 0)

\* the two words of row n of a table
RowOffsets(n) == {2 * n, 2 * n + 1}

\* C12: for every j in [-2, 2] and k in [-4, 4] the expression sin returns is
\* the angle-addition expansion of sin(j pi/2 + k pi/16 + t) in S, C, u and v;
\* u and v are read from row |k| - 1 of the tables, and exactly one branch
\* assigns the returned value.
C12_AngleAddition ==
  (SinReduced /\ j \in -2 .. 2 /\ Abs(k) <= 4) =>
    /\ sym = Expansion(j, k)
    /\ Entries("return") = {Len(log)}
    /\ k = 0 =>
         /\ TableReads = {}
         /\ log[Len(log)].arg = sin_switch_line(j)
    /\ k # 0 =>
         /\ {log[n].arg : n \in Entries("cos_table")} = RowOffsets(Abs(k) - 1)
         /\ {log[n].arg : n \in Entries("sin_table")} = RowOffsets(Abs(k) - 1)
         /\ log[Len(log)].arg = 755

C12_Witness ==
  /\ SinReduced /\ x.h # nan
  /\ j = 1 /\ k = -2
  /\ sym = Form(0, 0, 0, 0, 1, 1)

\* ------------------------------------------------ the library
Init == InitArith \/ InitNint \/ InitSqrt \/ InitTaylor \/ InitSin
Next == NextArith \/ NextNint \/ NextSqrt \/ NextTaylor \/ NextSin
Spec == Init /\ [][Next]_vars
====
